---------------------------- MODULE Spec2Model ----------------------------
(***************************************************************************)
(* super-dl: the command line entry point (super_dl/main.py) and the site  *)
(* modules (super_dl/sites).  Python strings are sequences of              *)
(* one-character strings, so that parsing, searching and substitution are  *)
(* computed character by character as the code computes them.              *)
(***************************************************************************)
EXTENDS Integers, Sequences, FiniteSets, TLC

\* Python's None where a str is expected: a value no string of characters equals
None == <<"None">>
\* None where a site key is expected
NoSite == "None"

(* ------------------------------ str helpers --------------------------- *)

UpperChars == <<"A","B","C","D","E","F","G","H","I","J","K","L","M","N","O","P","Q","R","S","T","U","V","W","X","Y","Z">>
LowerChars == <<"a","b","c","d","e","f","g","h","i","j","k","l","m","n","o","p","q","r","s","t","u","v","w","x","y","z">>
DigitChars == <<"0","1","2","3","4","5","6","7","8","9">>

Range(s) == {s[i] : i \in DOMAIN s}

Min(S) == CHOOSE x \in S : \A y \in S : x <= y
Max(S) == CHOOSE x \in S : \A y \in S : x >= y

\* str.lower() on one character
LowerChar(c) ==
  IF \E i \in DOMAIN UpperChars : UpperChars[i] = c
  THEN LowerChars[CHOOSE i \in DOMAIN UpperChars : UpperChars[i] = c]
  ELSE c

\* str.lower()
lower(s) == [i \in DOMAIN s |-> LowerChar(s[i])]

\* s[i-1:] in Python terms: the suffix of s that starts at 1-based index i
From(s, i) == SubSeq(s, i, Len(s))

\* pat occurs in s at 1-based index i
MatchAt(s, i, pat) ==
  /\ i >= 1
  /\ i + Len(pat) - 1 <= Len(s)
  /\ \A k \in 1..Len(pat) : s[i + k - 1] = pat[k]

\* the same, ignoring case (re.IGNORECASE on a literal)
MatchAtCI(s, i, pat) ==
  /\ i >= 1
  /\ i + Len(pat) - 1 <= Len(s)
  /\ \A k \in 1..Len(pat) : LowerChar(s[i + k - 1]) = LowerChar(pat[k])

\* str.startswith / str.endswith
startswith(s, pat) == MatchAt(s, 1, pat)
endswith(s, pat) == Len(pat) <= Len(s) /\ MatchAt(s, Len(s) - Len(pat) + 1, pat)

\* str.find(pat, from): the first index >= from where pat occurs, 0 when none
Find(s, pat, from) ==
  LET hits == {i \in from..(Len(s) - Len(pat) + 1) : MatchAt(s, i, pat)}
  IN IF hits = {} THEN 0 ELSE Min(hits)

\* the `in` operator on strings
Contains(s, pat) == Find(s, pat, 1) # 0

\* the first index >= from of a character of the set cs, Len(s)+1 when none
FirstOf(s, cs, from) ==
  Min({i \in from..(Len(s) + 1) : i = Len(s) + 1 \/ s[i] \in cs})

\* str.rstrip(c) / str.strip(c) for a single character c
rstrip(s, c) ==
  LET keep == {i \in 0..Len(s) : i = 0 \/ s[i] # c}
  IN SubSeq(s, 1, Max(keep))
lstrip(s, c) ==
  LET keep == {i \in 1..(Len(s) + 1) : i = Len(s) + 1 \/ s[i] # c}
  IN SubSeq(s, Min(keep), Len(s))
strip(s, c) == lstrip(rstrip(s, c), c)

(* ------------------------- urllib.parse.urlparse ---------------------- *)

SchemeChars == Range(UpperChars) \cup Range(LowerChars) \cup Range(DigitChars)
                 \cup {"+", "-", "."}
Alpha == Range(UpperChars) \cup Range(LowerChars)

\* urlsplit's scheme test: the text before the first ':' is a scheme when it
\* starts with a letter and holds scheme characters only.  The index of that
\* ':' or 0.
SchemeColon(url) ==
  LET i == Find(url, <<":">>, 1)
  IN IF i > 1 /\ url[1] \in Alpha /\ \A k \in 1..(i - 1) : url[k] \in SchemeChars
     THEN i ELSE 0

\* what urlsplit is left with once the scheme is cut off
AfterScheme(url) == From(url, SchemeColon(url) + 1)

\* urlparse(url).netloc: present only after '//', up to the first of / ? #
urlparse_netloc(url) ==
  LET rest == AfterScheme(url)
  IN IF startswith(rest, <<"/","/">>)
     THEN SubSeq(rest, 3, FirstOf(rest, {"/", "?", "#"}, 3) - 1)
     ELSE <<>>

\* the schemes whose last path segment urlparse cuts at ';' (uses_params)
UsesParams ==
  { <<>>, <<"f","t","p">>, <<"h","d","l">>, <<"p","r","o","s","p","e","r","o">>, <<"h","t","t","p">>, <<"i","m","a","p">>, <<"h","t","t","p","s">>, <<"s","h","t","t","p">>,
    <<"r","t","s","p">>, <<"r","t","s","p","u">>, <<"s","i","p">>, <<"s","i","p","s">>, <<"m","m","s">>, <<"s","f","t","p">>, <<"t","e","l">> }

\* urlparse(url).scheme
urlparse_scheme(url) == lower(SubSeq(url, 1, SchemeColon(url) - 1))

\* what follows the netloc in what follows the scheme
AfterNetloc(rest) ==
  IF startswith(rest, <<"/","/">>) THEN From(rest, FirstOf(rest, {"/", "?", "#"}, 3)) ELSE rest

\* the text before the query and the fragment
CutQuery(tail) == SubSeq(tail, 1, FirstOf(tail, {"?", "#"}, 1) - 1)

\* the index of the last '/' of path, 1 when it has none
LastSlash(path) ==
  IF \A i \in DOMAIN path : path[i] # "/" THEN 1
  ELSE Max({i \in DOMAIN path : path[i] = "/"})

\* the path without the ;parameters of its last segment
CutParams(path, scheme) ==
  IF scheme \in UsesParams
  THEN SubSeq(path, 1, FirstOf(path, {";"}, LastSlash(path)) - 1)
  ELSE path

\* urlparse(url).path: what follows the netloc, without query and fragment,
\* and without the ;parameters of the last segment
urlparse_path(url) ==
  CutParams(CutQuery(AfterNetloc(AfterScheme(url))), urlparse_scheme(url))

(* --------------------------- main.py: registry ------------------------ *)

\* _site_registry(): the entries in insertion order
SiteRegistry == <<
  [key |-> "influencersgonewild", module |-> "super_dl.sites.influencersgonewild",
   hosts |-> << <<"i","n","f","l","u","e","n","c","e","r","s","g","o","n","e","w","i","l","d",".","c","o","m">> >>],
  [key |-> "eroleaked", module |-> "super_dl.sites.eroleaked",
   hosts |-> << <<"e","r","o","l","e","a","k","e","d",".","c","o","m">> >>],
  [key |-> "amateurdoporn", module |-> "super_dl.sites.amateurdoporn",
   hosts |-> << <<"a","m","a","t","e","u","r","d","o","p","o","r","n",".","c","o","m">> >>],
  [key |-> "cumslutx", module |-> "super_dl.sites.cumslutx",
   hosts |-> << <<"c","u","m","s","l","u","t","x",".","c","o","m">>, <<"g","i","r","l","x","n","u","d","e",".","c","o","m">>, <<"f","a","p","p","l","a","y",".","c","o","m">> >>],
  [key |-> "simpthots", module |-> "super_dl.sites.simpthots",
   hosts |-> << <<"s","i","m","p","t","h","o","t","s",".","c","o","m">> >>],
  [key |-> "thothub", module |-> "super_dl.sites.thothub",
   hosts |-> << <<"t","h","o","t","h","u","b",".","t","o">>, <<"t","h","o","t","h","u","b",".","o","r","g">> >>],
  [key |-> "thotfans", module |-> "super_dl.sites.thotfans",
   hosts |-> << <<"t","h","o","t","f","a","n","s",".","c","o","m">> >>] >>

RegistryKeys == {SiteRegistry[i].key : i \in DOMAIN SiteRegistry}

\* registry.get(site_key): the entry, or NoSite for None
RegistryGet(site_key) ==
  IF site_key \in RegistryKeys
  THEN SiteRegistry[CHOOSE i \in DOMAIN SiteRegistry : SiteRegistry[i].key = site_key]
  ELSE NoSite

\* infer_site_from_url, lines 56-62: lower-case the netloc, drop what precedes
\* the first '@', drop one leading 'www.'
NetlocNoLower(url) ==
  LET netloc == urlparse_netloc(url)
      at     == Find(netloc, <<"@">>, 1)
      nocred == IF at # 0 THEN From(netloc, at + 1) ELSE netloc
  IN IF startswith(nocred, <<"w","w","w",".">>) THEN From(nocred, 5) ELSE nocred

NormalizedNetloc(url) ==
  LET netloc == lower(urlparse_netloc(url))
      at     == Find(netloc, <<"@">>, 1)
      nocred == IF at # 0 THEN From(netloc, at + 1) ELSE netloc
  IN IF startswith(nocred, <<"w","w","w",".">>) THEN From(nocred, 5) ELSE nocred

\* `host and host in netloc` for one registry entry
EntryMatches(entry, netloc) ==
  \E h \in DOMAIN entry.hosts :
     Len(entry.hosts[h]) > 0 /\ Contains(netloc, entry.hosts[h])

\* the loop of lines 65-70 from entry i on: the first entry that matches
RECURSIVE RegistryScan(_, _)
RegistryScan(i, netloc) ==
  IF i > Len(SiteRegistry) THEN NoSite
  ELSE IF EntryMatches(SiteRegistry[i], netloc) THEN SiteRegistry[i].key
  ELSE RegistryScan(i + 1, netloc)

\* a scan that keeps going and returns the last entry that matches
RegistryScanLast(netloc) ==
  LET hit == {i \in DOMAIN SiteRegistry : EntryMatches(SiteRegistry[i], netloc)}
  IN IF hit = {} THEN NoSite ELSE SiteRegistry[Max(hit)].key

FirstMatchingKey(netloc) == RegistryScan(1, netloc)

infer_site_from_url(url) ==
  IF Len(url) = 0 THEN NoSite ELSE FirstMatchingKey(NormalizedNetloc(url))

(* ------------------------------ HTML pages ---------------------------- *)
(* A page is the list of its nodes (what BeautifulSoup(html, "html.parser")*)
(* builds) together with its text (what re.search reads).  An element node *)
(* carries one identifying attribute an="av" and, when v is not None, one  *)
(* value attribute vn="v"; a text node carries its characters pre, v, post.*)

Elem(tag, an, av, vn, v) ==
  [kind |-> "elem", tag |-> tag, an |-> an, av |-> av, vn |-> vn, v |-> v,
   pre |-> <<>>, post |-> <<>>, inplayer |-> FALSE]

TextNode(pre, v, post) ==
  [kind |-> "text", tag |-> <<>>, an |-> <<>>, av |-> <<>>, vn |-> <<>>, v |-> v,
   pre |-> pre, post |-> post, inplayer |-> FALSE]

\* None where a node is expected
NoNode == [kind |-> "none", tag |-> <<>>, an |-> <<>>, av |-> <<>>, vn |-> <<>>,
           v |-> None, pre |-> <<>>, post |-> <<>>, inplayer |-> FALSE]

\* the characters of one node as they stand in the page source
RenderNode(n) ==
  IF n.kind = "text" THEN n.pre \o n.v \o n.post
  ELSE LET open == <<"<">> \o n.tag \o <<" ">> \o n.an \o <<"=","\"">> \o n.av \o <<"\"">>
           attr == IF n.v = None THEN <<>>
                   ELSE <<" ">> \o n.vn \o <<"=","\"">> \o n.v \o <<"\"">>
           elem == open \o attr \o <<">">>
       IN IF n.inplayer
          THEN <<"<","d","i","v"," ","c","l","a","s","s","=","\"","v","i","d","e","o","-","p","l","a","y","e","r","\"",">","<","d","i","v"," ","c","l","a","s","s","=","\"","r","e","s","p","o","n","s","i","v","e","-","p","l","a","y","e","r","\"",">">>
                 \o elem \o <<"<","/","d","i","v",">","<","/","d","i","v",">">>
          ELSE elem

RECURSIVE RenderFrom(_, _)
RenderFrom(dom, i) ==
  IF i > Len(dom) THEN <<>> ELSE RenderNode(dom[i]) \o RenderFrom(dom, i + 1)

\* the page a server sends for this list of nodes
Page(dom) == [dom |-> dom, text |-> RenderFrom(dom, 1)]

\* soup.find(tag, {an: av}): the first such element, or NoNode
SoupFind(html, tag, an, av) ==
  LET hit == {i \in DOMAIN html.dom :
                /\ html.dom[i].kind = "elem"
                /\ html.dom[i].tag = tag
                /\ html.dom[i].an = an
                /\ html.dom[i].av = av}
  IN IF hit = {} THEN NoNode ELSE html.dom[Min(hit)]

\* soup.find(tag) / soup.select_one(tag): the first element of that name
SoupFindTag(html, tag) ==
  LET hit == {i \in DOMAIN html.dom :
                html.dom[i].kind = "elem" /\ html.dom[i].tag = tag}
  IN IF hit = {} THEN NoNode ELSE html.dom[Min(hit)]

\* tag.has_attr(vn)
HasAttr(node, vn) == node.v # None /\ node.vn = vn

\* Python truthiness of an Optional[str]
Truthy(x) == x # None /\ x # <<>>

(* -------------------------- regular expressions ----------------------- *)

WhiteSpace == {" ", "\t", "\n", "\r", "\f"}
Quotes     == {"\"", "'"}
WordChars  == Range(UpperChars) \cup Range(LowerChars) \cup Range(DigitChars) \cup {"_"}

\* https?:// at index i: the index of the first character after it, else 0
SchemeEnd(s, i) ==
  IF MatchAt(s, i, <<"h","t","t","p","s",":","/","/">>) THEN i + 8
  ELSE IF MatchAt(s, i, <<"h","t","t","p",":","/","/">>) THEN i + 7
  ELSE 0

SchemeEndCI(s, i) ==
  IF MatchAtCI(s, i, <<"h","t","t","p","s",":","/","/">>) THEN i + 8
  ELSE IF MatchAtCI(s, i, <<"h","t","t","p",":","/","/">>) THEN i + 7
  ELSE 0

\* [^excl]+ from index p: the index of the last character of the longest run
RunEnd(s, p, excl) == FirstOf(s, excl, p) - 1

\* [^excl]+ext from index p: the indexes at which a match may end
UrlEnds(s, p, excl, ext) ==
  {j + Len(ext) - 1 : j \in {j \in (p + 1)..(RunEnd(s, p, excl) + 1) : MatchAt(s, j, ext)}}

UrlEndsCI(s, p, excl, ext) ==
  {j + Len(ext) - 1 : j \in {j \in (p + 1)..(RunEnd(s, p, excl) + 1) : MatchAtCI(s, j, ext)}}

\* \b after the word character at index e
WordBoundaryAfter(s, e) == e = Len(s) \/ s[e + 1] \notin WordChars

\* re.search(r"(https?://[^excl]+ext)", s): greedy, the leftmost match
SearchUrlGreedy(s, excl, ext) ==
  LET starts == {i \in 1..Len(s) :
                   SchemeEnd(s, i) # 0 /\ UrlEnds(s, SchemeEnd(s, i), excl, ext) # {}}
  IN IF starts = {} THEN None
     ELSE LET i == Min(starts)
          IN SubSeq(s, i, Max(UrlEnds(s, SchemeEnd(s, i), excl, ext)))

\* re.search(r"(https?://[^excl]+?ext)", s): lazy, the leftmost match
SearchUrlLazy(s, excl, ext) ==
  LET starts == {i \in 1..Len(s) :
                   SchemeEnd(s, i) # 0 /\ UrlEnds(s, SchemeEnd(s, i), excl, ext) # {}}
  IN IF starts = {} THEN None
     ELSE LET i == Min(starts)
          IN SubSeq(s, i, Min(UrlEnds(s, SchemeEnd(s, i), excl, ext)))

\* re.search(r'<tag[^>]+attr=["\'](https?://[^"\']+?ext)["\']', s, re.IGNORECASE):
\* the group of the leftmost match.  [^>]+ is greedy, so of the attr= inside
\* the tag the last one that completes a match is taken.
SearchTagAttrUrl(s, tag, attr, ext) ==
  LET Ends(k) == {e \in UrlEndsCI(s, SchemeEndCI(s, k + Len(attr) + 1), Quotes, ext) :
                    e < Len(s) /\ s[e + 1] \in Quotes}
      Attrs(i) == {k \in (i + Len(tag) + 1)..(RunEnd(s, i + Len(tag), {">"}) + 1) :
                     /\ MatchAtCI(s, k, attr)
                     /\ k + Len(attr) <= Len(s)
                     /\ s[k + Len(attr)] \in Quotes
                     /\ SchemeEndCI(s, k + Len(attr) + 1) # 0
                     /\ Ends(k) # {}}
      starts == {i \in 1..Len(s) : MatchAtCI(s, i, tag) /\ Attrs(i) # {}}
  IN IF starts = {} THEN None
     ELSE LET k == Max(Attrs(Min(starts)))
          IN SubSeq(s, k + Len(attr) + 1, Min(Ends(k)))

\* the first index >= p of a character that is not white space (\s*)
SkipSpace(s, p) == Min({i \in p..(Len(s) + 1) : i = Len(s) + 1 \/ s[i] \notin WhiteSpace})

\* thothub.py line 51: video_url:\s*'function/0/(https?://[^']+\.mp4)\b
SearchVideoUrl(s) ==
  LET G(i) == SkipSpace(s, i + 10) + 12
      Ends(i) == {e \in UrlEnds(s, SchemeEnd(s, G(i)), {"'"}, <<".","m","p","4">>) :
                    WordBoundaryAfter(s, e)}
      starts == {i \in 1..Len(s) :
                   /\ MatchAt(s, i, <<"v","i","d","e","o","_","u","r","l",":">>)
                   /\ MatchAt(s, SkipSpace(s, i + 10), <<"'","f","u","n","c","t","i","o","n","/","0","/">>)
                   /\ SchemeEnd(s, G(i)) # 0
                   /\ Ends(i) # {}}
  IN IF starts = {} THEN None
     ELSE LET i == Min(starts) IN SubSeq(s, G(i), Max(Ends(i)))

(* ---------------------- the sites' extract_mp4_url -------------------- *)

\* cumslutx.py lines 31-50
cumslutx_extract_mp4_url(html) ==
  LET meta   == SoupFind(html, <<"m","e","t","a">>, <<"i","t","e","m","p","r","o","p">>, <<"c","o","n","t","e","n","t","U","R","L">>)
      source == SoupFind(html, <<"s","o","u","r","c","e">>, <<"t","y","p","e">>, <<"v","i","d","e","o","/","m","p","4">>)
  IN IF meta # NoNode /\ HasAttr(meta, <<"c","o","n","t","e","n","t">>) /\ endswith(meta.v, <<".","m","p","4">>)
     THEN meta.v
     ELSE IF source # NoNode /\ HasAttr(source, <<"s","r","c">>) THEN source.v
     ELSE SearchUrlGreedy(html.text, WhiteSpace \cup Quotes, <<".","m","p","4">>)

\* simpthots.py lines 30-43
simpthots_extract_mp4_url(html) ==
  LET og  == SoupFind(html, <<"m","e","t","a">>, <<"p","r","o","p","e","r","t","y">>, <<"o","g",":","v","i","d","e","o">>)
      og2 == SoupFind(html, <<"m","e","t","a">>, <<"p","r","o","p","e","r","t","y">>, <<"o","g",":","v","i","d","e","o",":","s","e","c","u","r","e","_","u","r","l">>)
  IN IF og # NoNode /\ HasAttr(og, <<"c","o","n","t","e","n","t">>) THEN og.v
     ELSE IF og2 # NoNode /\ HasAttr(og2, <<"c","o","n","t","e","n","t">>) THEN og2.v
     ELSE SearchUrlGreedy(html.text, WhiteSpace \cup Quotes, <<".","m","p","4">>)

\* influencersgonewild.py lines 26-35
influencersgonewild_extract_mp4_url(html) ==
  LET source_tag == SoupFind(html, <<"s","o","u","r","c","e">>, <<"t","y","p","e">>, <<"v","i","d","e","o","/","m","p","4">>)
  IN IF source_tag # NoNode /\ HasAttr(source_tag, <<"s","r","c">>) THEN source_tag.v
     ELSE None

\* thotfans.py lines 37-62
thotfans_extract_mp4_url(html) ==
  IF html.text = <<>> THEN None
  ELSE LET m  == SearchTagAttrUrl(html.text, <<"<","s","o","u","r","c","e">>, <<"s","r","c","=">>, <<".","m","p","4">>)
           m2 == SearchTagAttrUrl(html.text, <<"<","a">>, <<"h","r","e","f","=">>, <<".","m","p","4">>)
           m3 == SearchUrlLazy(html.text, Quotes \cup {" ", ">"}, <<".","m","p","4">>)
       IN IF m # None THEN m ELSE IF m2 # None THEN m2 ELSE m3

\* an extractor that stops after the structured lookup
thothub_extract_no_fallback(html) ==
  IF html.text = <<>> THEN None ELSE SearchVideoUrl(html.text)

\* thothub.py lines 39-61
thothub_extract_mp4_url(html) ==
  IF html.text = <<>> THEN None
  ELSE LET m  == SearchVideoUrl(html.text)
           m2 == SearchUrlLazy(html.text, {"\"", " "}, <<".","m","p","4">>)
       IN IF m # None THEN m ELSE m2

\* module.extract_mp4_url of the module registered for a site key
extract_mp4_url(site, html) ==
  CASE site = "cumslutx" -> cumslutx_extract_mp4_url(html)
    [] site = "simpthots" -> simpthots_extract_mp4_url(html)
    [] site = "influencersgonewild" -> influencersgonewild_extract_mp4_url(html)
    [] site = "thotfans" -> thotfans_extract_mp4_url(html)
    [] site = "thothub" -> thothub_extract_mp4_url(html)

(* --------------------------- output file names ------------------------ *)

\* s.split(c): the pieces of s between the occurrences of the character c
RECURSIVE Split(_, _)
Split(s, c) ==
  IF FirstOf(s, {c}, 1) > Len(s) THEN <<s>>
  ELSE <<SubSeq(s, 1, FirstOf(s, {c}, 1) - 1)>> \o Split(From(s, FirstOf(s, {c}, 1) + 1), c)

\* [p for p in parts if p]
NonEmpty(parts) == SelectSeq(parts, LAMBDA p : p # <<>>)

\* parts[-1], or the default when there are no parts
LastOr(parts, default) == IF parts # <<>> THEN parts[Len(parts)] ELSE default

\* name or default
OrDefault(name, default) == IF name = <<>> THEN default ELSE name

\* os.path.basename(path): what follows the last '/'
basename(path) == LastOr(Split(path, "/"), <<>>)

\* pathlib.Path(path).name: the last component, '' when there is none
\* (empty and '.' pieces are not components)
PathName(path) ==
  LastOr(SelectSeq(Split(path, "/"), LAMBDA p : p # <<>> /\ p # <<".">>), <<>>)

SafeChars == Range(UpperChars) \cup Range(LowerChars) \cup Range(DigitChars)
               \cup {".", "_", "-"}

\* re.sub(r"[^A-Za-z0-9._-]", "-", name)
Sanitize(name) == [i \in DOMAIN name |-> IF name[i] \in SafeChars THEN name[i] ELSE "-"]

\* `if not name.lower().endswith(".mp4"): name = f"{name}.mp4"`
WithMp4(name) == IF endswith(lower(name), <<".","m","p","4">>) THEN name ELSE name \o <<".","m","p","4">>

\* cumslutx.py lines 53-66 and simpthots.py lines 46-56
mp4_derive_filename_from_url(url) ==
  WithMp4(Sanitize(LastOr(NonEmpty(Split(urlparse_path(url), "/")), <<"v","i","d","e","o">>)))

\* eroleaked.py lines 64-67, amateurdoporn.py lines 50-53: Path(path).name,
\* else the last non-empty piece, else "video"
HlsName(path, name) ==
  IF name # <<>> THEN name ELSE LastOr(NonEmpty(Split(path, "/")), <<"v","i","d","e","o">>)

HlsNameOf(path) == HlsName(path, PathName(path))

\* eroleaked.py lines 57-68 and amateurdoporn.py lines 47-54
hls_derive_filename_from_url(url) == Sanitize(HlsNameOf(rstrip(url, "/")))

\* thothub.py lines 70-77 and thotfans.py lines 71-76
filename_from_url(url) == basename(rstrip(urlparse_path(url), "/"))

\* fapnut.py lines 78-84, path being the URL's path without its outer '/'
PageName(path) ==
  IF path = <<>> THEN <<"f","a","p","n","u","t",".","m","p","4">>
  ELSE OrDefault(basename(path), <<"f","a","p","n","u","t">>) \o <<".","m","p","4">>

\* fapnut.py lines 72-84
filename_from_page_url(page_url) == PageName(strip(urlparse_path(page_url), "/"))

\* fapnut.py lines 109-113: the name taken from the playlist URL
fapnut_name_from_m3u8(m3u8_url) ==
  OrDefault(PathName(urlparse_path(m3u8_url)), <<"f","a","p","n","u","t">>) \o <<".","m","p","4">>

EroleakedReferer == <<"h","t","t","p","s",":","/","/","e","r","o","l","e","a","k","e","d",".","c","o","m","/">>

(* ----------------------- the sites' other functions ------------------- *)

\* the modules under super_dl/sites; fapnut is not in the registry
SiteModules == RegistryKeys \cup {"fapnut"}

\* the functions each module defines, as main's hasattr() sees them
ModuleHas(site, name) ==
  CASE name = "full_download_from_page" ->
         site \in {"eroleaked", "amateurdoporn", "cumslutx", "simpthots"}
    [] name = "extract_mp4_url" ->
         site \in {"cumslutx", "simpthots", "influencersgonewild", "thotfans", "thothub"}
    [] name = "extract_iframe_src" -> site \in {"eroleaked", "amateurdoporn", "fapnut"}
    [] name = "extract_m3u8_from_html" -> site \in {"eroleaked", "fapnut"}
    [] name \in {"fetch_page", "download"} -> site \in SiteModules

\* main.py lines 119, 123, 132, 151: the flow main takes for a module
Flow(site) ==
  IF ModuleHas(site, "full_download_from_page") THEN "full"
  ELSE IF \A n \in {"fetch_page", "extract_mp4_url", "download"} : ModuleHas(site, n)
  THEN "classic"
  ELSE IF \A n \in {"fetch_page", "extract_iframe_src", "extract_m3u8_from_html",
                    "download"} : ModuleHas(site, n)
  THEN "iframe"
  ELSE "unsupported"

\* re.search(r'<iframe[^>]+src=["\']([^"\']+)["\']', html, re.IGNORECASE), group 1
SearchIframeSrc(s) ==
  LET Val(k) == SubSeq(s, k + 5, RunEnd(s, k + 5, Quotes))
      Attrs(i) == {k \in (i + 8)..(RunEnd(s, i + 7, {">"}) + 1) :
                     /\ MatchAtCI(s, k, <<"s","r","c","=">>)
                     /\ k + 4 <= Len(s)
                     /\ s[k + 4] \in Quotes
                     /\ Val(k) # <<>>
                     /\ RunEnd(s, k + 5, Quotes) < Len(s)}
      starts == {i \in 1..Len(s) : MatchAtCI(s, i, <<"<","i","f","r","a","m","e">>) /\ Attrs(i) # {}}
  IN IF starts = {} THEN None
     ELSE LET k == Max(Attrs(Min(starts))) IN Val(k)

\* eroleaked.py lines 34-45, amateurdoporn.py lines 33-38, fapnut.py lines 41-48
extract_iframe_src(site, html) ==
  LET inplayer == {i \in DOMAIN html.dom :
                     /\ html.dom[i].kind = "elem"
                     /\ html.dom[i].tag = <<"i","f","r","a","m","e">>
                     /\ html.dom[i].inplayer}
      first  == IF site = "eroleaked" /\ inplayer # {}
                     /\ HasAttr(html.dom[Min(inplayer)], <<"s","r","c">>)
                THEN html.dom[Min(inplayer)]
                ELSE SoupFindTag(html, <<"i","f","r","a","m","e">>)
  IN IF site = "fapnut"
     THEN (IF html.text = <<>> THEN None ELSE SearchIframeSrc(html.text))
     ELSE IF first # NoNode /\ HasAttr(first, <<"s","r","c">>) THEN first.v ELSE None

\* the parts of re.search(r'...(https?://[^"\']+?\.m3u8 ... [^"\']*)', html,
\* re.IGNORECASE) in fapnut.py lines 60 and 65: the first start whose lazy
\* match reaches a .m3u8 (followed by \b when wordb), extended to the next quote
SearchM3u8Tail(s, starts, wordb, quoted) ==
  LET End(i) == Min({e \in UrlEndsCI(s, SchemeEndCI(s, i), Quotes, <<".","m","3","u","8">>) :
                      /\ (wordb => WordBoundaryAfter(s, e))
                      /\ (quoted => RunEnd(s, e + 1, Quotes) < Len(s))})
      ok == {i \in starts :
               /\ SchemeEndCI(s, i) # 0
               /\ \E e \in UrlEndsCI(s, SchemeEndCI(s, i), Quotes, <<".","m","3","u","8">>) :
                    /\ (wordb => WordBoundaryAfter(s, e))
                    /\ (quoted => RunEnd(s, e + 1, Quotes) < Len(s))}
  IN IF ok = {} THEN None
     ELSE SubSeq(s, Min(ok), RunEnd(s, End(Min(ok)) + 1, Quotes))

\* fapnut.py lines 51-69
fapnut_extract_m3u8_from_html(html) ==
  IF html.text = <<>> THEN None
  ELSE LET s  == html.text
           m  == SearchM3u8Tail(s, {i \in 6..Len(s) : MatchAtCI(s, i - 5, <<"s","r","c","=">>)
                                                      /\ s[i - 1] \in Quotes},
                                FALSE, TRUE)
           m2 == SearchM3u8Tail(s, 1..Len(s), TRUE, FALSE)
       IN IF m # None THEN m ELSE m2

\* eroleaked.py lines 48-54, amateurdoporn.py lines 41-44, fapnut.py lines 51-69
extract_m3u8(site, html) ==
  IF site = "fapnut" THEN fapnut_extract_m3u8_from_html(html)
  ELSE SearchUrlGreedy(html.text, WhiteSpace \cup Quotes, <<".","m","3","u","8">>)

\* the directory of a path: up to and including its last '/'
DirOf(path) ==
  IF \A i \in DOMAIN path : path[i] # "/" THEN <<"/">> ELSE SubSeq(path, 1, LastSlash(path))

\* scheme://netloc of a URL
RootOf(base) == SubSeq(base, 1, SchemeColon(base)) \o <<"/","/">> \o urlparse_netloc(base)

\* urllib.parse.urljoin(base, ref) for a base with scheme and host and a ref
\* without dot segments
urljoin(base, ref) ==
  IF ref = <<>> THEN base
  ELSE IF SchemeColon(ref) # 0 THEN ref
  ELSE IF startswith(ref, <<"/","/">>) THEN SubSeq(base, 1, SchemeColon(base)) \o ref
  ELSE IF startswith(ref, <<"/">>) THEN RootOf(base) \o ref
  ELSE RootOf(base) \o DirOf(urlparse_path(base)) \o ref

\* eroleaked.py lines 114-118: how full_download_from_page resolves the src
eroleaked_resolve(iframe_src) ==
  IF startswith(iframe_src, <<"/","/">>) THEN <<"h","t","t","p","s",":">> \o iframe_src
  ELSE IF startswith(iframe_src, <<"/">>) THEN <<"h","t","t","p","s",":","/","/","e","r","o","l","e","a","k","e","d",".","c","o","m">> \o iframe_src
  ELSE iframe_src

\* requests.get(url): a URL without http(s):// raises MissingSchema
Fetchable(u) == startswith(lower(u), <<"h","t","t","p",":","/","/">>) \/ startswith(lower(u), <<"h","t","t","p","s",":","/","/">>)

(* ================================ state =============================== *)

VARIABLES
  \* infer_site_from_url called alone
  cls_parts,    \* the pieces the argument is made of
  cls_url,      \* the argument
  cls_pc,       \* "call" before the call, "returned" after it
  cls_result,   \* the value returned
  \* extract_mp4_url called alone
  ext_site,     \* the site module called
  ext_html,     \* the argument
  ext_pc,       \* "call" before the call, "returned" after it
  ext_result,   \* the value returned
  \* a filename-derivation function called alone
  fn_site,      \* the module whose function is called
  fn_parts,     \* the pieces the argument is made of
  fn_url,       \* the argument
  fn_pc,        \* "call" before the call, "returned" after it
  fn_result,    \* the value returned
  \* main()
  args,         \* argparse's namespace: url, site, output, version
  pc,           \* where main() stands
  site_key,     \* the site key main() settled on
  html,         \* the page fetch_page returned
  iframe_url,   \* the URL fetched for the iframe
  iframe_html,  \* the iframe page fetch_page returned
  media,        \* the media URL extraction returned
  status,       \* the exit status main() returned
  steps,        \* the pipeline steps executed so far, each with its outcome
  fail_kind,    \* why the run failed, "none" while it has not
  prev,         \* kind and status of the run before this one
  \* module.download()
  dl_site,      \* the module whose download() runs
  dl_url,       \* its media URL argument
  dl_out,       \* its out_path argument
  dl_page_url,  \* its page_url argument (fapnut)
  dl_pc,        \* where download() stands
  derived_name, \* the file name derived from a URL, None when none was derived
  dl_path,      \* the path written to, None when the tool is left to choose
  dl_effects,   \* what download() has done to the world so far
  dl_rc,        \* the value download() returned
  dl_exc,       \* the exception download() raised
  resp_open,    \* the streamed HTTP response is open
  resp_status,  \* its status code
  resp_left,    \* the chunks of its body still to come
  fh_open,      \* the output file handle is open
  tool_exits,   \* the exit codes of the external tool's runs, in order
  \* the file system
  fs_file,      \* the chunks of the file at the output path, or Absent
  fs_parent     \* the parent directory of the output path exists

clsVars  == <<cls_parts, cls_url, cls_pc, cls_result>>
extVars  == <<ext_site, ext_html, ext_pc, ext_result>>
fnVars   == <<fn_site, fn_parts, fn_url, fn_pc, fn_result>>
mainVars == <<args, pc, site_key, html, iframe_url, iframe_html, media, status, steps,
              fail_kind, prev>>
dlArgs   == <<dl_site, dl_url, dl_out, dl_page_url>>
dlVars   == <<dl_site, dl_url, dl_out, dl_page_url, dl_pc, derived_name, dl_path,
              dl_effects, dl_rc, dl_exc, resp_open, resp_status, resp_left, fh_open,
              tool_exits>>
fsVars   == <<fs_file, fs_parent>>

vars == <<clsVars, extVars, fnVars, mainVars, dlVars, fsVars>>

(* ------------------- infer_site_from_url called alone ----------------- *)

\* str.upper() and an alternating-case spelling, to write hosts the way a
\* user may type them
UpperChar(c) ==
  IF \E i \in DOMAIN LowerChars : LowerChars[i] = c
  THEN UpperChars[CHOOSE i \in DOMAIN LowerChars : LowerChars[i] = c]
  ELSE c
upper(s) == [i \in DOMAIN s |-> UpperChar(s[i])]
mixed(s) == [i \in DOMAIN s |-> IF i % 2 = 1 THEN UpperChar(s[i]) ELSE s[i]]

RegisteredHosts ==
  UNION {Range(SiteRegistry[i].hosts) : i \in DOMAIN SiteRegistry}

CaseVariants(h) == {h, upper(h), mixed(h)}

\* hosts no registry entry names; some of them contain a registered host
OtherHosts ==
  { <<"e","x","a","m","p","l","e",".","c","o","m">>, <<"f","a","p","n","u","t",".","n","e","t">>, <<"n","o","t","t","h","o","t","h","u","b",".","t","o">>, <<"t","h","o","t","h","u","b",".","t","o",".","e","r","o","l","e","a","k","e","d",".","c","o","m">>,
    <<"t","h","o","t","h","u","b",".","t","o",":","8","0","8","0">>, <<"t","h","o","t","h","u","b",".","t","o","@","e","v","i","l",".","c","o","m">>, <<"t","h","o","t","h","u","b","x","t","o">>, <<>> }

ClsSchemes   == { <<"h","t","t","p","s",":","/","/">>, <<"h","t","t","p",":","/","/">>, <<"H","T","T","P","S",":","/","/">>, <<"/","/">>, <<>> }
ClsUserinfos == { <<>>, <<"u","s","e","r",":","p","a","s","s","@">> }
ClsWww       == { <<>>, <<"w","w","w",".">>, <<"W","W","W",".">> }
ClsHosts     == UNION {CaseVariants(h) : h \in RegisteredHosts} \cup OtherHosts
ClsTails     == { <<>>, <<"/","v","i","d","e","o","s","/","1","/","?","x","=","1","#","t">> }

ClsJoin(p) == p.scheme \o p.userinfo \o p.www \o p.host \o p.tail

ClsInit ==
  /\ cls_parts \in [scheme : ClsSchemes, userinfo : ClsUserinfos, www : ClsWww,
                    host : ClsHosts, tail : ClsTails]
  /\ cls_url = ClsJoin(cls_parts)
  /\ cls_pc = "call"
  /\ cls_result = NoSite

InferSite ==
  /\ cls_pc = "call"
  /\ cls_result' = infer_site_from_url(cls_url)
  /\ cls_pc' = "returned"
  /\ UNCHANGED <<cls_parts, cls_url>>

(* --------------------- extract_mp4_url called alone ------------------- *)

\* the longest page, in nodes
MaxNodes == 2

DirectMp4Sites == {"cumslutx", "simpthots", "influencersgonewild", "thotfans", "thothub"}

UrlCdn   == <<"h","t","t","p","s",":","/","/","c","d","n",".","x",".","c","o","m","/","a",".","m","p","4">>
UrlQuery == <<"h","t","t","p","s",":","/","/","c","d","n",".","t","h","o","t","f","a","n","s",".","c","o","m","/","i","g","w","/","j","e","e","d",".","m","p","4","?","_","=","1">>
UrlRel   == <<"/","m","e","d","i","a","/","r",".","m","p","4">>
UrlBare  == <<"h","t","t","p","s",":","/","/","o","t","h","e","r",".","e","x","a","m","p","l","e","/","b",".","m","p","4">>
UrlPlain == <<"h","t","t","p","s",":","/","/","s","i","t","e",".","e","x","a","m","p","l","e","/","a","b","o","u","t">>
UrlM3u8  == <<"h","t","t","p","s",":","/","/","c","d","n",".","x",".","c","o","m","/","h","l","s","/","p","l","a","y","l","i","s","t",".","m","3","u","8">>

MetaItemprop(u) == Elem(<<"m","e","t","a">>, <<"i","t","e","m","p","r","o","p">>, <<"c","o","n","t","e","n","t","U","R","L">>, <<"c","o","n","t","e","n","t">>, u)
MetaOg(u)       == Elem(<<"m","e","t","a">>, <<"p","r","o","p","e","r","t","y">>, <<"o","g",":","v","i","d","e","o">>, <<"c","o","n","t","e","n","t">>, u)
MetaOgSecure(u) == Elem(<<"m","e","t","a">>, <<"p","r","o","p","e","r","t","y">>, <<"o","g",":","v","i","d","e","o",":","s","e","c","u","r","e","_","u","r","l">>, <<"c","o","n","t","e","n","t">>, u)
SourceMp4(u)    == Elem(<<"s","o","u","r","c","e">>, <<"t","y","p","e">>, <<"v","i","d","e","o","/","m","p","4">>, <<"s","r","c">>, u)
Anchor(u)       == Elem(<<"a">>, <<"c","l","a","s","s">>, <<"d","l">>, <<"h","r","e","f">>, u)
ScriptVar(u, post) == TextNode(<<"v","i","d","e","o","_","u","r","l",":"," ","'","f","u","n","c","t","i","o","n","/","0","/">>, u, post)
BareText(u)     == TextNode(<<" ">>, u, <<" ">>)

NodePool ==
  { MetaItemprop(UrlCdn), MetaOg(UrlCdn), MetaOgSecure(UrlCdn),
    SourceMp4(UrlCdn), SourceMp4(UrlQuery), SourceMp4(UrlRel), SourceMp4(None),
    ScriptVar(UrlCdn, <<"'">>), ScriptVar(UrlCdn, <<"/","'">>),
    Anchor(UrlBare), BareText(UrlBare), BareText(UrlPlain) }

Doms == UNION {[1..n -> NodePool] : n \in 0..MaxNodes}

ExtInit ==
  /\ ext_site \in DirectMp4Sites
  /\ ext_html \in {Page(d) : d \in Doms}
  /\ ext_pc = "call"
  /\ ext_result = None

ExtractMp4 ==
  /\ ext_pc = "call"
  /\ ext_result' = extract_mp4_url(ext_site, ext_html)
  /\ ext_pc' = "returned"
  /\ UNCHANGED <<ext_site, ext_html>>


(* ----------------- fapnut.extract_m3u8_from_html called alone --------- *)

UrlM3u8Token == <<"h","t","t","p","s",":","/","/","c","d","n",".","x",".","c","o","m","/","h","l","s","/","p","l","a","y","l","i","s","t",".","m","3","u","8","?","t","o","k","e","n","=","1">>
UrlM3u8Rel   == <<"/","h","l","s","/","p","l","a","y","l","i","s","t",".","m","3","u","8">>

VideoSrc(u) == Elem(<<"v","i","d","e","o">>, <<"c","l","a","s","s">>, <<"h","l","s">>, <<"s","r","c">>, u)
JsVar(u)    == TextNode(<<" ","v","a","r"," ","p","l","a","y","e","r"," ","="," ","\"">>, u, <<"\"",";">>)

M3u8NodePool ==
  { VideoSrc(UrlM3u8), VideoSrc(UrlM3u8Token), VideoSrc(UrlCdn),
    JsVar(UrlM3u8), JsVar(UrlM3u8Token), JsVar(UrlM3u8Rel),
    BareText(UrlM3u8), BareText(UrlM3u8Token), BareText(UrlPlain) }

M3u8Doms == UNION {[1..n -> M3u8NodePool] : n \in 0..MaxNodes}

M3u8Init ==
  /\ ext_site = "fapnut"
  /\ ext_html \in {Page(d) : d \in M3u8Doms}
  /\ ext_pc = "call"
  /\ ext_result = None

ExtractM3u8 ==
  /\ ext_pc = "call"
  /\ ext_result' = fapnut_extract_m3u8_from_html(ext_html)
  /\ ext_pc' = "returned"
  /\ UNCHANGED <<ext_site, ext_html>>
(* ------------------ filename derivation called alone ------------------ *)

\* the modules that derive a file name from a URL, each by a function of its own
DerivingModules ==
  {"cumslutx", "simpthots", "eroleaked", "amateurdoporn", "thothub", "thotfans", "fapnut"}

\* the module's filename-derivation function applied to url
DeriveFilename(site, url) ==
  CASE site \in {"cumslutx", "simpthots"} -> mp4_derive_filename_from_url(url)
    [] site \in {"eroleaked", "amateurdoporn"} -> hls_derive_filename_from_url(url)
    [] site \in {"thothub", "thotfans"} -> filename_from_url(url)
    [] site = "fapnut" -> filename_from_page_url(url)

\* the URLs the functions are given: a base, then a trailing slash or none,
\* then a query string or none
FnBases ==
  { <<"h","t","t","p","s",":","/","/","c","d","n",".","e","x","a","m","p","l","e",".","c","o","m","/","v","i","d","e","o","s","/","1","2","3","4","5",".","m","p","4">>, <<"h","t","t","p","s",":","/","/","e","r","o","l","e","a","k","e","d",".","c","o","m","/","2","0","2","5","/","0","8","/","1","8","/","m","y","-","s","l","u","g">>,
    <<"h","t","t","p","s",":","/","/","c","d","n",".","x",".","c","o","m","/","v","/","c","l","i","p">>, <<"h","t","t","p","s",":","/","/","h",".","e","x","a","m","p","l","e">> }
FnSlashes == { <<>>, <<"/">> }
FnQueries == { <<>>, <<"?","x","=","1">> }

FnJoin(p) == p.base \o p.slash \o p.query

FnInit ==
  /\ fn_site \in DerivingModules
  /\ fn_parts \in [base : FnBases, slash : FnSlashes, query : FnQueries]
  /\ fn_url = FnJoin(fn_parts)
  /\ fn_pc = "call"
  /\ fn_result = None

DeriveName ==
  /\ fn_pc = "call"
  /\ fn_result' = DeriveFilename(fn_site, fn_url)
  /\ fn_pc' = "returned"
  /\ UNCHANGED <<fn_site, fn_parts, fn_url>>

(* --------------------------- module.download() ------------------------ *)

\* the longest streamed body, in chunks
MaxChunks == 2

Absent == <<"absent">>

\* what each module's download() hands the media URL to
Tool(site) ==
  CASE site \in {"cumslutx", "simpthots"} -> "curl"
    [] site = "influencersgonewild" -> "wget"
    [] site \in {"eroleaked", "amateurdoporn", "fapnut"} -> "ffmpeg"
    [] site \in {"thothub", "thotfans"} -> "requests"

\* the exit codes the external tools are taken to return
ToolExitCodes == {0, 1, 2, 22}

\* `if not mp4_url` read as `if mp4_url is None`
UrlGivenNotNone(url) == url # None

\* the first statement of every download(): `if not <url>: raise ValueError`
UrlGiven(url) == Truthy(url)

\* the name download() derives when it is given no out_path; None when the
\* module derives none (influencersgonewild leaves the name to wget)
DownloadDerivedName(site, url, page_url) ==
  CASE site \in {"cumslutx", "simpthots"} -> mp4_derive_filename_from_url(url)
    [] site = "eroleaked" -> hls_derive_filename_from_url(EroleakedReferer) \o <<".","m","p","4">>
    [] site = "amateurdoporn" -> hls_derive_filename_from_url(url) \o <<".","m","p","4">>
    [] site \in {"thothub", "thotfans"} -> filename_from_url(url)
    [] site = "fapnut" -> IF Truthy(page_url) THEN filename_from_page_url(page_url)
                          ELSE fapnut_name_from_m3u8(url)
    [] site = "influencersgonewild" -> None

\* whether download() takes the out_path it is given: curl and ffmpeg modules
\* test `out_path is None`, the others test `if out_path`
OutGiven(site, out) ==
  IF site \in {"cumslutx", "simpthots", "eroleaked", "amateurdoporn"}
  THEN out # None ELSE Truthy(out)

\* the output path is settled: the out_path given, else the name derived
DlSetPath(derived) ==
  /\ derived_name' = IF OutGiven(dl_site, dl_out) THEN derived_name ELSE derived
  /\ dl_path' = IF OutGiven(dl_site, dl_out) THEN dl_out ELSE derived

\* dl_rc is read only once dl_pc = "returned", dl_exc once dl_pc = "raised"
DlRaise(exc) ==
  /\ dl_pc' = "raised"
  /\ dl_exc' = exc
  /\ dl_rc' = 0

DlReturn(rc) ==
  /\ dl_pc' = "returned"
  /\ dl_rc' = rc
  /\ dl_exc' = "none"

\* the test of the URL and, for all but fapnut, the choice of the output path
\* (cumslutx.py 70-73, simpthots.py 60-63, influencersgonewild.py 45-61,
\* eroleaked.py 76-80, amateurdoporn.py 58-61, thothub.py 85-105,
\* thotfans.py 80-99, fapnut.py 94-95): no effect on the world yet
DlValidate ==
  /\ dl_pc = "entry"
  /\ UNCHANGED tool_exits
  /\ IF ~UrlGiven(dl_url)
     THEN /\ DlRaise("ValueError")
          /\ UNCHANGED <<derived_name, dl_path>>
     ELSE /\ UNCHANGED <<dl_rc, dl_exc>>
          /\ IF dl_site = "fapnut"
             THEN dl_pc' = "which" /\ UNCHANGED <<derived_name, dl_path>>
             ELSE /\ DlSetPath(DownloadDerivedName(dl_site, dl_url, dl_page_url))
                  /\ dl_pc' = CASE Tool(dl_site) = "requests" -> "mkdir"
                                [] Tool(dl_site) = "wget" ->
                                     IF Truthy(dl_out) /\ ~fs_parent THEN "mkdir" ELSE "run"
                                [] OTHER -> "run"
  /\ UNCHANGED <<dlArgs, dl_effects, resp_open, resp_status, resp_left, fh_open>>
  /\ UNCHANGED fsVars

\* fapnut.py lines 98-113: shutil.which("ffmpeg"), then the output path
DlWhich ==
  /\ dl_pc = "which"
  /\ UNCHANGED tool_exits
  /\ dl_effects' = Append(dl_effects, "which")
  /\ \E found \in BOOLEAN :
       IF found
       THEN /\ DlSetPath(DownloadDerivedName(dl_site, dl_url, dl_page_url))
            /\ dl_pc' = "mkdir"
            /\ UNCHANGED <<dl_rc, dl_exc>>
       ELSE /\ DlRaise("RuntimeError")
            /\ UNCHANGED <<derived_name, dl_path>>
  /\ UNCHANGED <<dlArgs, resp_open, resp_status, resp_left, fh_open>>
  /\ UNCHANGED fsVars

\* out_file.parent.mkdir(parents=True, exist_ok=True): thothub.py 108,
\* thotfans.py 101, fapnut.py 115, influencersgonewild.py 58-59
DlMkdir ==
  /\ dl_pc = "mkdir"
  /\ UNCHANGED tool_exits
  /\ dl_effects' = Append(dl_effects, "mkdir")
  /\ fs_parent' = TRUE
  /\ dl_pc' = IF Tool(dl_site) = "requests" THEN "get" ELSE "run"
  /\ UNCHANGED <<dlArgs, derived_name, dl_path, dl_rc, dl_exc, resp_open, resp_status,
                 resp_left, fh_open, fs_file>>

\* subprocess.run(cmd) and what download() makes of the exit code:
\* cumslutx.py 88-89, simpthots.py 80-81, influencersgonewild.py 66-67,
\* eroleaked.py 103-104, amateurdoporn.py 80-81, fapnut.py 134-138.
\* An executable that is not installed makes subprocess.run raise; a tool
\* given a URL it cannot fetch does not exit 0.
DlRun ==
  /\ dl_pc = "run"
  /\ dl_effects' = Append(dl_effects, "subprocess")
  /\ \E rc \in ToolExitCodes : \E installed \in BOOLEAN :
       /\ rc = 0 => Fetchable(dl_url)
       /\ IF ~installed
          THEN DlRaise("FileNotFoundError") /\ UNCHANGED <<fs_file, tool_exits>>
          ELSE /\ tool_exits' = Append(tool_exits, rc)
               /\ fs_file' = IF rc = 0 THEN <<"media">> ELSE fs_file
               /\ IF dl_site = "fapnut" /\ rc # 0
                  THEN DlRaise("RuntimeError")
                  ELSE DlReturn(IF dl_site = "fapnut" THEN 0 ELSE rc)
  /\ UNCHANGED <<dlArgs, derived_name, dl_path, resp_open, resp_status, resp_left,
                 fh_open, fs_parent>>

\* how a GET can end: 0 stands for no response at all, 304 for a final
\* response that is neither a success nor an error
GetOutcomes == {0, 200, 304, 404}

\* requests.get(url_with_rnd, stream=True): thothub.py 111, thotfans.py 103
DlGet ==
  /\ dl_pc = "get"
  /\ UNCHANGED tool_exits
  /\ dl_effects' = Append(dl_effects, "GET")
  /\ \E code \in GetOutcomes : \E n \in 0..MaxChunks :
       IF code = 0 \/ ~Fetchable(dl_url)
       THEN /\ DlRaise("RequestException")
            /\ UNCHANGED <<resp_open, resp_status, resp_left>>
       ELSE /\ resp_open' = TRUE
            /\ resp_status' = code
            /\ resp_left' = n
            /\ dl_pc' = "status"
            /\ UNCHANGED <<dl_rc, dl_exc>>
  /\ UNCHANGED <<dlArgs, derived_name, dl_path, fh_open>>
  /\ UNCHANGED fsVars

\* what r.raise_for_status() raises on: a 4xx or 5xx status, and no other
\* (thothub.py 113, thotfans.py 105)
StatusRaises(code) == code >= 400 /\ code < 600

\* r.raise_for_status() inside `with requests.get(...) as r`: thothub.py
\* 112-116, thotfans.py 104-107; leaving the with block closes the response
DlRaiseForStatus ==
  /\ dl_pc = "status"
  /\ UNCHANGED tool_exits
  /\ IF StatusRaises(resp_status)
     THEN DlRaise("HTTPError") /\ resp_open' = FALSE
     ELSE dl_pc' = "open" /\ UNCHANGED <<dl_rc, dl_exc, resp_open>>
  /\ UNCHANGED <<dlArgs, derived_name, dl_path, dl_effects, resp_status, resp_left, fh_open>>
  /\ UNCHANGED fsVars

\* open(out_file, "wb"): thothub.py 117, thotfans.py 108.  The file is created
\* or truncated; a path that names a directory cannot be opened.
DlOpen ==
  /\ dl_pc = "open"
  /\ UNCHANGED tool_exits
  /\ dl_effects' = Append(dl_effects, "open")
  /\ \E ok \in BOOLEAN :
       IF ok /\ dl_path # <<>>
       THEN /\ fh_open' = TRUE
            /\ fs_file' = <<>>
            /\ dl_pc' = "stream"
            /\ UNCHANGED <<dl_rc, dl_exc, resp_open>>
       ELSE /\ DlRaise("OSError")
            /\ resp_open' = FALSE
            /\ UNCHANGED <<fh_open, fs_file>>
  /\ UNCHANGED <<dlArgs, derived_name, dl_path, resp_status, resp_left, fs_parent>>

\* leaving `with open(...) as fh` inside `with requests.get(...) as r`, by
\* return or by exception: the handle is closed, then the response
\* (thothub.py 111 and 117, thotfans.py 103 and 108)
LeaveOpenedOnly == resp_open' = FALSE /\ UNCHANGED fh_open
LeaveWithBlocks == fh_open' = FALSE /\ resp_open' = FALSE

\* one turn of `for chunk in r.iter_content(...)`: thothub.py 118-120,
\* thotfans.py 109-111.  The chunk is written, or reading or writing raises
\* and both with blocks are left.
DlChunk ==
  /\ dl_pc = "stream"
  /\ UNCHANGED tool_exits
  /\ resp_left > 0
  /\ \E ok \in BOOLEAN :
       IF ok
       THEN /\ fs_file' = Append(fs_file, "chunk")
            /\ dl_effects' = Append(dl_effects, "write")
            /\ resp_left' = resp_left - 1
            /\ UNCHANGED <<dl_pc, dl_rc, dl_exc, resp_open, fh_open>>
       ELSE /\ DlRaise("StreamError")
            /\ LeaveWithBlocks
            /\ UNCHANGED <<fs_file, dl_effects, resp_left>>
  /\ UNCHANGED <<dlArgs, derived_name, dl_path, resp_status, fs_parent>>

\* the body is exhausted: both with blocks are left and 0 is returned
\* (thothub.py 117-122, thotfans.py 108-113)
DlFinish ==
  /\ dl_pc = "stream"
  /\ UNCHANGED tool_exits
  /\ resp_left = 0
  /\ LeaveWithBlocks
  /\ DlReturn(0)
  /\ UNCHANGED <<dlArgs, derived_name, dl_path, dl_effects, resp_status, resp_left>>
  /\ UNCHANGED fsVars

\* download() not running
DlIdle ==
  /\ dl_site = NoSite /\ dl_url = None /\ dl_out = None /\ dl_page_url = None
  /\ dl_pc = "idle" /\ derived_name = None /\ dl_path = None /\ dl_effects = <<>>
  /\ dl_rc = 0 /\ dl_exc = "none"
  /\ resp_open = FALSE /\ resp_status = 0 /\ resp_left = 0 /\ fh_open = FALSE
  /\ tool_exits = <<>>

\* download() called alone: the arguments a caller may pass
DlUrls ==
  { None, <<>>, <<"h","t","t","p","s",":","/","/","c","d","n",".","x",".","c","o","m","/","a",".","m","p","4">>, <<"h","t","t","p","s",":","/","/","c","d","n",".","x",".","c","o","m","/","v","/","a","%","2","0","b",".","m","p","4","?","x","=","1">>,
    <<"h","t","t","p","s",":","/","/","c","d","n",".","x",".","c","o","m","/","h","l","s","/","p","l","a","y","l","i","s","t",".","m","3","u","8","?","t","o","k","e","n","=","1">>, <<"h","t","t","p","s",":","/","/","c","d","n",".","x",".","c","o","m","/","c","l","i","p","/">>,
    <<"/","m","e","d","i","a","/","r",".","m","p","4">> }
DlOuts == { None, <<"o","u","t","/","v",".","m","p","4">> }
DlPageUrls == { None, <<"h","t","t","p","s",":","/","/","f","a","p","n","u","t",".","n","e","t","/","s","o","m","e","-","v","i","d","e","o","/">> }

DlInit ==
  /\ dl_site \in SiteModules
  /\ dl_url \in DlUrls
  /\ dl_out \in DlOuts
  /\ dl_page_url \in IF dl_site = "fapnut" THEN DlPageUrls ELSE {None}
  /\ dl_pc = "entry" /\ derived_name = None /\ dl_path = None /\ dl_effects = <<>>
  /\ dl_rc = 0 /\ dl_exc = "none"
  /\ resp_open = FALSE /\ resp_status = 0 /\ resp_left = 0 /\ fh_open = FALSE
  /\ tool_exits = <<>>
  /\ fs_file \in {Absent, <<"old">>}
  /\ fs_parent \in BOOLEAN

(* -------------------------------- main() ------------------------------ *)

\* registry.get(site_key)["module"], NoSite when the key is not registered
\* (main.py lines 103-104)
ModulePath(key) ==
  IF key \in RegistryKeys
  THEN SiteRegistry[CHOOSE i \in DOMAIN SiteRegistry : SiteRegistry[i].key = key].module
  ELSE NoSite

\* main.py lines 93-95: --site when given, else what the URL says
DetermineKey(a) == IF a.site # NoSite THEN a.site ELSE infer_site_from_url(a.url)

\* a caller that does not look at what extraction returned
MediaFoundAlways(m) == TRUE

\* `if not mp4_url` / `if not m3u8` / `if not iframe_src`, negated
MediaFound(m) == Truthy(m)

\* a run without media that returns what a failed import returns
NoMediaStatusShared(site) == 3

\* the status of a run that found no media URL: main's own flows return 4
\* (main.py 126-128, 135-137, 146-148); full_download_from_page raises
\* RuntimeError, which main turns into 5 (main.py 153-155)
NoMediaStatus(site) == IF Flow(site) = "full" THEN 5 ELSE 4

\* the name full_download_from_page derives from the page URL when it is
\* given no out_path (cumslutx.py 97-98, simpthots.py 86-87, eroleaked.py
\* 125-127); None for the callers that pass args.output on as it is
CallerDerived(site, url) ==
  CASE site \in {"cumslutx", "simpthots"} -> mp4_derive_filename_from_url(url)
    [] site = "eroleaked" -> hls_derive_filename_from_url(url) \o <<".","m","p","4">>
    [] OTHER -> None

Step(name, ok) == [step |-> name, ok |-> ok]

\* return <code> from main()
Finish(code, kind) ==
  /\ pc' = "done"
  /\ status' = code
  /\ fail_kind' = kind

\* the run ends without media having been found
NoMedia ==
  /\ Finish(NoMediaStatus(site_key), "no_media")
  /\ UNCHANGED <<media, dlVars>>

\* module.download(m, out_path=...) is entered, derived being the name the
\* caller derived
EnterDownload(m, derived) ==
  /\ pc' = "in_download"
  /\ media' = m
  /\ dl_site' = site_key
  /\ dl_url' = m
  /\ dl_out' = IF args.output # None THEN args.output ELSE derived
  /\ derived_name' = IF args.output # None THEN None ELSE derived
  /\ dl_page_url' = None
  /\ dl_pc' = "entry"
  /\ dl_path' = None
  /\ dl_effects' = <<>>
  /\ tool_exits' = <<>>
  /\ UNCHANGED <<dl_rc, dl_exc, resp_open, resp_status, resp_left, fh_open>>
  /\ UNCHANGED <<status, fail_kind>>

CallDownload(m) == EnterDownload(m, CallerDerived(site_key, args.url))

\* what extraction returned is looked at, and the run goes on or ends
AfterExtract(m) == IF MediaFound(m) THEN CallDownload(m) ELSE NoMedia

\* main.py lines 80-88: --version, a missing URL
ParseArgs ==
  /\ pc = "start"
  /\ IF args.version THEN Finish(0, "none")
     ELSE IF ~Truthy(args.url) THEN Finish(1, "missing_url")
     ELSE pc' = "classify" /\ UNCHANGED <<status, fail_kind>>
  /\ UNCHANGED <<args, site_key, html, iframe_url, iframe_html, media, steps, prev>>
  /\ UNCHANGED <<dlVars, fsVars>>

\* main.py lines 90-107
DetermineSite ==
  /\ pc = "classify"
  /\ LET key == DetermineKey(args)
     IN /\ site_key' = key
        /\ IF key = NoSite
           THEN Finish(2, "no_site") /\ steps' = Append(steps, Step("classify", FALSE))
           ELSE IF ModulePath(key) = NoSite
           THEN Finish(2, "unknown_site") /\ steps' = Append(steps, Step("classify", FALSE))
           ELSE /\ pc' = "import"
                /\ steps' = Append(steps, Step("classify", TRUE))
                /\ UNCHANGED <<status, fail_kind>>
  /\ UNCHANGED <<args, html, iframe_url, iframe_html, media, prev>>
  /\ UNCHANGED <<dlVars, fsVars>>

\* main.py lines 110-123, 132, 151-152: the import, then the choice of the flow
ImportModule ==
  /\ pc = "import"
  /\ \E imported \in BOOLEAN :
       IF ~imported THEN Finish(3, "module_unavailable")
       ELSE IF Flow(site_key) = "unsupported" THEN Finish(5, "unsupported")
       ELSE pc' = "fetch_page" /\ UNCHANGED <<status, fail_kind>>
  /\ UNCHANGED <<args, site_key, html, iframe_url, iframe_html, media, steps, prev>>
  /\ UNCHANGED <<dlVars, fsVars>>


\* the pages a site may serve
IframeTag(src) == Elem(<<"i","f","r","a","m","e">>, <<"c","l","a","s","s">>, <<"p","l","a","y","e","r">>, <<"s","r","c">>, src)
M3u8Text(u) == TextNode(<<"f","i","l","e",":"," ","\"">>, u, <<"\"">>)

MainDoms ==
  { <<>>, <<BareText(UrlPlain)>>,
    <<SourceMp4(UrlCdn)>>, <<SourceMp4(UrlRel)>>,
    <<MetaItemprop(UrlRel)>>, <<MetaOg(UrlRel)>>, <<MetaOg(UrlCdn)>>,
    <<ScriptVar(UrlCdn, <<"/","'">>)>>, <<BareText(UrlBare)>>,
    <<IframeTag(<<"/","e","m","b","e","d","/","x">>)>>, <<IframeTag(<<"h","t","t","p","s",":","/","/","p","l","a","y","e","r",".","e","x","a","m","p","l","e","/","e","/","x">>)>>,
    <<IframeTag(<<"e","m","b","e","d","/","x">>)>>, <<IframeTag(<<"/","/","p","l","a","y","e","r",".","e","x","a","m","p","l","e","/","e","/","x">>)>>,
    <<M3u8Text(UrlM3u8)>> }

IframeDoms == { <<>>, <<M3u8Text(UrlM3u8)>>, <<M3u8Text(<<"/","h","l","s","/","p","l","a","y","l","i","s","t",".","m","3","u","8">>)>> }

\* fetch_page(url): requests.get + raise_for_status; FALSE stands for the
\* exception either raises (cumslutx.py 24-28 and the like)
FetchOutcomes(url) == IF Fetchable(url) THEN BOOLEAN ELSE {FALSE}

\* module.fetch_page(args.url): main.py 124, 133 and the first statement of
\* every full_download_from_page; an exception ends main with 5 (153-155)
FetchPage ==
  /\ pc = "fetch_page"
  /\ \E ok \in FetchOutcomes(args.url) : \E dom \in MainDoms :
       IF ok
       THEN /\ html' = Page(dom)
            /\ pc' = "extract"
            /\ steps' = Append(steps, Step("fetch", TRUE))
            /\ UNCHANGED <<status, fail_kind>>
       ELSE /\ Finish(5, "fetch")
            /\ steps' = Append(steps, Step("fetch", FALSE))
            /\ UNCHANGED html
  /\ UNCHANGED <<args, site_key, iframe_url, iframe_html, media, prev>>
  /\ UNCHANGED <<dlVars, fsVars>>

\* the iframe found on the page is the next thing to fetch
GoToIframe(src) ==
  IF MediaFound(src)
  THEN /\ iframe_url' = IF site_key = "eroleaked" THEN eroleaked_resolve(src)
                        ELSE urljoin(args.url, src)
       /\ pc' = "fetch_iframe"
       /\ UNCHANGED <<status, fail_kind, media, dlVars>>
  ELSE NoMedia /\ UNCHANGED iframe_url

\* the step recorded for an extraction that returned m
Extracted(name, m) == steps' = Append(steps, Step(name, MediaFound(m)))

\* amateurdoporn.py 88-99: the m3u8 on the page itself, else the iframe
PageOrIframe(m3u8) ==
  IF MediaFound(m3u8)
  THEN Extracted("extract", m3u8) /\ CallDownload(m3u8) /\ UNCHANGED iframe_url
  ELSE Extracted("extract", extract_iframe_src(site_key, html))
         /\ GoToIframe(extract_iframe_src(site_key, html))

\* what is looked for on the page and what follows: main.py 125-129 for the
\* classic flow, cumslutx.py 94-99, simpthots.py 84-89, eroleaked.py 110-118,
\* amateurdoporn.py 88-99 for full_download_from_page
ExtractMedia ==
  /\ pc = "extract"
  /\ CASE site_key \in DirectMp4Sites ->
            /\ Extracted("extract", extract_mp4_url(site_key, html))
            /\ AfterExtract(extract_mp4_url(site_key, html))
            /\ UNCHANGED iframe_url
       [] site_key = "amateurdoporn" -> PageOrIframe(extract_m3u8(site_key, html))
       [] OTHER ->
            /\ Extracted("extract", extract_iframe_src(site_key, html))
            /\ GoToIframe(extract_iframe_src(site_key, html))
  /\ UNCHANGED <<args, site_key, html, iframe_html, prev>>
  /\ UNCHANGED fsVars

\* fetch_page(iframe_src): eroleaked.py 120, amateurdoporn.py 97, main.py 143
FetchIframe ==
  /\ pc = "fetch_iframe"
  /\ \E ok \in FetchOutcomes(iframe_url) : \E dom \in IframeDoms :
       IF ok
       THEN /\ iframe_html' = Page(dom)
            /\ pc' = "extract_iframe"
            /\ steps' = Append(steps, Step("fetch_iframe", TRUE))
            /\ UNCHANGED <<status, fail_kind>>
       ELSE /\ Finish(5, "fetch")
            /\ steps' = Append(steps, Step("fetch_iframe", FALSE))
            /\ UNCHANGED iframe_html
  /\ UNCHANGED <<args, site_key, html, iframe_url, media, prev>>
  /\ UNCHANGED <<dlVars, fsVars>>

\* the m3u8 looked for on the iframe page: eroleaked.py 121-129,
\* amateurdoporn.py 98-104, main.py 144-149
ExtractFromIframe ==
  /\ pc = "extract_iframe"
  /\ Extracted("extract_iframe", extract_m3u8(site_key, iframe_html))
  /\ AfterExtract(extract_m3u8(site_key, iframe_html))
  /\ UNCHANGED <<args, site_key, html, iframe_url, iframe_html, prev>>
  /\ UNCHANGED fsVars

\* `return module.download(...)`: the value download() returned is main's
\* status; an exception it raised is caught at main.py 153-155
ReturnFromDownload ==
  /\ pc = "in_download"
  /\ dl_pc \in {"returned", "raised"}
  /\ IF dl_pc = "returned"
     THEN /\ Finish(dl_rc, IF dl_rc = 0 THEN "none" ELSE "download")
          /\ steps' = Append(steps, Step("download", dl_rc = 0))
     ELSE /\ Finish(5, "download")
          /\ steps' = Append(steps, Step("download", FALSE))
  /\ UNCHANGED <<args, site_key, html, iframe_url, iframe_html, media, prev>>
  /\ UNCHANGED <<dlVars, fsVars>>

\* the command lines main() is run with
PageUrls ==
  { <<"h","t","t","p","s",":","/","/","i","n","f","l","u","e","n","c","e","r","s","g","o","n","e","w","i","l","d",".","c","o","m","/","v","/","c","l","i","p","/">>, <<"h","t","t","p","s",":","/","/","e","r","o","l","e","a","k","e","d",".","c","o","m","/","v","/","c","l","i","p","/">>,
    <<"h","t","t","p","s",":","/","/","a","m","a","t","e","u","r","d","o","p","o","r","n",".","c","o","m","/","v","/","c","l","i","p","/">>, <<"h","t","t","p","s",":","/","/","w","w","w",".","c","u","m","s","l","u","t","x",".","c","o","m","/","v","/","c","l","i","p","/">>,
    <<"h","t","t","p","s",":","/","/","s","i","m","p","t","h","o","t","s",".","c","o","m","/","v","/","c","l","i","p","/">>, <<"h","t","t","p","s",":","/","/","t","h","o","t","h","u","b",".","t","o","/","v","/","c","l","i","p","/">>,
    <<"h","t","t","p","s",":","/","/","t","h","o","t","f","a","n","s",".","c","o","m","/","v","/","c","l","i","p","/">>, <<"h","t","t","p","s",":","/","/","e","l","s","e","w","h","e","r","e",".","e","x","a","m","p","l","e","/","v","/","c","l","i","p","/">> }

MainOuts == { None, <<"o","u","t","/","v",".","m","p","4">> }

Args(url, site, output, version) ==
  [url |-> url, site |-> site, output |-> output, version |-> version]

MainArgs ==
  {Args(u, NoSite, o, FALSE) : u \in PageUrls, o \in MainOuts}
    \cup {Args(u, NoSite, None, v) : u \in {None, <<>>}, v \in BOOLEAN}
    \cup {Args(<<"h","t","t","p","s",":","/","/","e","l","s","e","w","h","e","r","e",".","e","x","a","m","p","l","e","/","v","/","c","l","i","p","/">>, k, None, FALSE) :
            k \in {"thothub", "cumslutx", "nosuchsite"}}

NoRun == [kind |-> "first", status |-> 0]

\* main() not running
IdleMain ==
  /\ args = Args(None, NoSite, None, FALSE) /\ pc = "idle" /\ site_key = NoSite
  /\ html = Page(<<>>) /\ iframe_url = None /\ iframe_html = Page(<<>>)
  /\ media = None /\ status = 0 /\ steps = <<>> /\ fail_kind = "none" /\ prev = NoRun

\* no file at the output path, its directory yet to be made
FsFresh == fs_file = Absent /\ fs_parent = FALSE

MainInit ==
  /\ args \in MainArgs /\ pc = "start" /\ site_key = NoSite
  /\ html = Page(<<>>) /\ iframe_url = None /\ iframe_html = Page(<<>>)
  /\ media = None /\ status = 0 /\ steps = <<>> /\ fail_kind = "none" /\ prev = NoRun
  /\ DlIdle
  /\ FsFresh

\* the command is run once more, in a fresh directory; what the run before it
\* returned is kept to compare the two
Restart ==
  /\ pc = "done"
  /\ prev = NoRun
  /\ prev' = [kind |-> fail_kind, status |-> status]
  /\ args' \in MainArgs
  /\ pc' = "start" /\ site_key' = NoSite
  /\ html' = Page(<<>>) /\ iframe_url' = None /\ iframe_html' = Page(<<>>)
  /\ media' = None /\ status' = 0 /\ steps' = <<>> /\ fail_kind' = "none"
  /\ dl_site' = NoSite /\ dl_url' = None /\ dl_out' = None /\ dl_page_url' = None
  /\ dl_pc' = "idle" /\ derived_name' = None /\ dl_path' = None /\ dl_effects' = <<>>
  /\ dl_rc' = 0 /\ dl_exc' = "none"
  /\ resp_open' = FALSE /\ resp_status' = 0 /\ resp_left' = 0 /\ fh_open' = FALSE
  /\ tool_exits' = <<>>
  /\ fs_file' = Absent /\ fs_parent' = FALSE

(* ============================ specifications ========================== *)

NoParts == [scheme |-> <<>>, userinfo |-> <<>>, www |-> <<>>, host |-> <<>>, tail |-> <<>>]
IdleCls == cls_parts = NoParts /\ cls_url = <<>> /\ cls_pc = "idle" /\ cls_result = NoSite
IdleExt == ext_site = NoSite /\ ext_html = Page(<<>>) /\ ext_pc = "idle" /\ ext_result = None

NoFnParts == [base |-> <<>>, slash |-> <<>>, query |-> <<>>]
IdleFn ==
  /\ fn_site = NoSite /\ fn_parts = NoFnParts /\ fn_url = <<>> /\ fn_pc = "idle"
  /\ fn_result = None

\* infer_site_from_url called alone
InitClassify == ClsInit /\ IdleExt /\ IdleFn /\ IdleMain /\ DlIdle /\ FsFresh
NextClassify == InferSite /\ UNCHANGED <<extVars, fnVars, mainVars, dlVars, fsVars>>
SpecClassify == InitClassify /\ [][NextClassify]_vars

\* extract_mp4_url called alone
InitExtract == ExtInit /\ IdleCls /\ IdleFn /\ IdleMain /\ DlIdle /\ FsFresh
NextExtract == ExtractMp4 /\ UNCHANGED <<clsVars, fnVars, mainVars, dlVars, fsVars>>
SpecExtract == InitExtract /\ [][NextExtract]_vars

\* fapnut.extract_m3u8_from_html called alone
InitExtractM3u8 == M3u8Init /\ IdleCls /\ IdleFn /\ IdleMain /\ DlIdle /\ FsFresh
NextExtractM3u8 == ExtractM3u8 /\ UNCHANGED <<clsVars, fnVars, mainVars, dlVars, fsVars>>
SpecExtractM3u8 == InitExtractM3u8 /\ [][NextExtractM3u8]_vars

\* a filename-derivation function called alone
InitFilename == FnInit /\ IdleCls /\ IdleExt /\ IdleMain /\ DlIdle /\ FsFresh
NextFilename == DeriveName /\ UNCHANGED <<clsVars, extVars, mainVars, dlVars, fsVars>>
SpecFilename == InitFilename /\ [][NextFilename]_vars

\* a step of download(): main() and the functions called alone stand still
InDownload(step) == step /\ UNCHANGED <<clsVars, extVars, fnVars, mainVars>>

\* a step of main()
InMain(step) == step /\ UNCHANGED <<clsVars, extVars, fnVars>>

\* download() of any module called alone
InitDownload == DlInit /\ IdleCls /\ IdleExt /\ IdleFn /\ IdleMain

NextDownload ==
  \/ InDownload(DlValidate)
  \/ InDownload(DlWhich)
  \/ InDownload(DlMkdir)
  \/ InDownload(DlRun)
  \/ InDownload(DlGet)
  \/ InDownload(DlRaiseForStatus)
  \/ InDownload(DlOpen)
  \/ InDownload(DlChunk)
  \/ InDownload(DlFinish)

SpecDownload == InitDownload /\ [][NextDownload]_vars

\* the command run from its entry point; the registry holds no module that
\* looks ffmpeg up, so DlWhich is not among its steps
Init == MainInit /\ IdleCls /\ IdleExt /\ IdleFn

Next ==
  \/ InMain(ParseArgs)
  \/ InMain(DetermineSite)
  \/ InMain(ImportModule)
  \/ InMain(FetchPage)
  \/ InMain(ExtractMedia)
  \/ InMain(FetchIframe)
  \/ InMain(ExtractFromIframe)
  \/ InMain(ReturnFromDownload)
  \/ InMain(Restart)
  \/ InDownload(DlValidate)
  \/ InDownload(DlMkdir)
  \/ InDownload(DlRun)
  \/ InDownload(DlGet)
  \/ InDownload(DlRaiseForStatus)
  \/ InDownload(DlOpen)
  \/ InDownload(DlChunk)
  \/ InDownload(DlFinish)

Spec == Init /\ [][Next]_vars

(* =============================== claims =============================== *)

(* C1: for every registered site, a run of main() whose page (and iframe   *)
(* page, where there is one) was fetched and on which no media URL was     *)
(* found returns exit status 4.                                            *)
C1_NoMediaReturns4 ==
  (pc = "done" /\ fail_kind = "no_media" /\ site_key \in RegistryKeys) => status = 4

\* the failure kinds the exit status is to tell apart
FailureKinds == {"no_site", "unknown_site", "module_unavailable", "no_media", "download"}

(* C2 as stated: two runs of main() that fail in different kinds among no  *)
(* site found, unknown site key, module unavailable, no media URL found    *)
(* and download failure return different exit statuses.                    *)
C2_DistinctStatusPerKind ==
  (/\ pc = "done"
   /\ fail_kind \in FailureKinds
   /\ prev.kind \in FailureKinds
   /\ prev.kind # fail_kind)
  => prev.status # status

\* the failure kinds whose statuses main() keeps apart, by group
KindGroup(kind) ==
  CASE kind \in {"no_site", "unknown_site"} -> "classification"
    [] kind = "module_unavailable" -> "import"
    [] kind = "no_media" -> "extraction"
    [] OTHER -> "other"

\* the statuses each group returns
GroupStatuses(group) ==
  CASE group = "classification" -> {2}
    [] group = "import" -> {3}
    [] group = "extraction" -> {4, 5}
    [] OTHER -> {}

(* C2 amended: the failures before the download fall into three groups     *)
(* with disjoint statuses: no site found and unknown site key both return  *)
(* 2, a module that cannot be imported returns 3, no media URL found       *)
(* returns 4 or 5; two runs failing in different groups return different   *)
(* statuses.  A failed download returns the tool's own exit code, which    *)
(* may be any of these.                                                    *)
C2_DistinctStatusPerGroup ==
  pc = "done" =>
    /\ KindGroup(fail_kind) # "other" => status \in GroupStatuses(KindGroup(fail_kind))
    /\ (/\ KindGroup(fail_kind) # "other"
        /\ KindGroup(prev.kind) # "other"
        /\ KindGroup(prev.kind) # KindGroup(fail_kind))
       => prev.status # status

C2_Witness ==
  /\ pc = "done"
  /\ prev = [kind |-> "module_unavailable", status |-> 3]
  /\ fail_kind = "no_media"
  /\ status = 5

\* the pipeline steps in their order
StepOrder == <<"classify", "fetch", "extract", "fetch_iframe", "extract_iframe", "download">>
Rank(name) == CHOOSE i \in DOMAIN StepOrder : StepOrder[i] = name
StepsDone == {steps[i].step : i \in DOMAIN steps}

\* download() has been entered or has done something to the world
DownloadActed ==
  \/ dl_pc # "idle"
  \/ dl_effects # <<>>
  \/ "download" \in StepsDone
  \/ fs_file # Absent
  \/ fs_parent

(* C3: in every run of main() the steps happen in the order classify,      *)
(* fetch page, extract, fetch iframe, extract from iframe, download, each  *)
(* at most once; a failed step is the last one; no page is fetched unless  *)
(* the site is a registered one; download() is not entered, and nothing    *)
(* is run, requested, created or opened, unless the extraction before it   *)
(* succeeded and returned a non-empty media URL.                           *)
C3_StepsInOrderNoRetry ==
  /\ \A i, j \in DOMAIN steps : i < j => Rank(steps[i].step) < Rank(steps[j].step)
  /\ \A i \in DOMAIN steps : ~steps[i].ok => (i = Len(steps) /\ pc = "done")
  /\ "fetch" \in StepsDone =>
       (site_key \in RegistryKeys /\ steps[1] = Step("classify", TRUE))
  /\ pc \in {"fetch_page", "extract", "fetch_iframe", "extract_iframe", "in_download"}
       => site_key \in RegistryKeys
  /\ DownloadActed =>
       /\ Truthy(media)
       /\ \E i \in DOMAIN steps :
            steps[i] \in {Step("extract", TRUE), Step("extract_iframe", TRUE)}

C3_Witness ==
  /\ pc = "done"
  /\ status = 0
  /\ [i \in DOMAIN steps |-> steps[i].step] = StepOrder
  /\ dl_effects = <<"subprocess">>

(* -------------------------- claims on download() ---------------------- *)

(* C4: in every site module, download() called with an empty or None      *)
(* media URL raises ValueError before any request, subprocess, lookup of   *)
(* an executable, directory creation or file open.                         *)
C4_EmptyUrlFailsFast ==
  ~Truthy(dl_url) =>
    /\ dl_effects = <<>>
    /\ ~resp_open /\ ~fh_open
    /\ fs_file \in {Absent, <<"old">>}
    /\ dl_pc \in {"entry", "raised"}
    /\ dl_pc = "raised" => dl_exc = "ValueError"

C4_Witness ==
  /\ dl_site = "fapnut"
  /\ dl_url = <<>>
  /\ dl_pc = "raised"
  /\ dl_exc = "ValueError"

(* --------------------- claims on infer_site_from_url ------------------ *)

\* the schemes after which urlparse finds a network location
WithAuthority(p) == p.scheme # <<>>

(* C5: a URL whose host is a registered hostname pattern h of site key k,  *)
(* written in lower, upper or mixed case, with or without a leading www.   *)
(* and with or without user:pass@ userinfo, is classified as k.            *)
C5_RegisteredHostClassified ==
  (cls_pc = "returned" /\ WithAuthority(cls_parts)) =>
     \A i \in DOMAIN SiteRegistry : \A h \in DOMAIN SiteRegistry[i].hosts :
        cls_parts.host \in CaseVariants(SiteRegistry[i].hosts[h])
           => cls_result = SiteRegistry[i].key

C5_Witness ==
  /\ cls_pc = "returned"
  /\ cls_parts.scheme = <<"H","T","T","P","S",":","/","/">>
  /\ cls_parts.userinfo = <<"u","s","e","r",":","p","a","s","s","@">>
  /\ cls_parts.www = <<"W","W","W",".">>
  /\ cls_parts.host = upper(<<"g","i","r","l","x","n","u","d","e",".","c","o","m">>)
  /\ cls_result = "cumslutx"

\* pat is a substring of s, said without the search the model of `in` uses
IsSubstring(pat, s) ==
  \E i \in 1..(Len(s) + 1) : \E j \in (i - 1)..Len(s) : SubSeq(s, i, j) = pat

\* the registry entries one of whose patterns is a substring of netloc
MatchingEntries(netloc) ==
  {i \in DOMAIN SiteRegistry :
     \E h \in DOMAIN SiteRegistry[i].hosts : IsSubstring(SiteRegistry[i].hosts[h], netloc)}

(* C6: infer_site_from_url returns the key of the first registry entry, in *)
(* insertion order, one of whose hostname patterns is a substring of the   *)
(* normalized host, and None exactly when no pattern is a substring of it  *)
(* (so also for an empty URL and for a URL with no host part).             *)
C6_FirstMatchInRegistryOrder ==
  cls_pc = "returned" =>
    LET m == MatchingEntries(NormalizedNetloc(cls_url))
    IN /\ (m # {} => cls_result = SiteRegistry[Min(m)].key)
       /\ (m = {} <=> cls_result = NoSite)
       /\ (cls_url = <<>> => cls_result = NoSite)
       /\ (~WithAuthority(cls_parts) => cls_result = NoSite)

C6_Witness ==
  /\ cls_pc = "returned"
  /\ cls_parts.host = <<"t","h","o","t","h","u","b",".","t","o",".","e","r","o","l","e","a","k","e","d",".","c","o","m">>
  /\ cls_parts.scheme = <<"h","t","t","p","s",":","/","/">>
  /\ Cardinality(MatchingEntries(NormalizedNetloc(cls_url))) = 2
  /\ cls_result = "eroleaked"

\* the nodes of a page that are a structured location for the site: the meta
\* tag, source element or script variable its extractor looks up
IsStructured(site, n) ==
  CASE site = "cumslutx" ->
         \/ (n.kind = "elem" /\ n.tag = <<"m","e","t","a">> /\ n.an = <<"i","t","e","m","p","r","o","p">>
               /\ n.av = <<"c","o","n","t","e","n","t","U","R","L">>)
         \/ (n.kind = "elem" /\ n.tag = <<"s","o","u","r","c","e">> /\ n.av = <<"v","i","d","e","o","/","m","p","4">>)
    [] site = "simpthots" ->
         n.kind = "elem" /\ n.tag = <<"m","e","t","a">> /\ n.an = <<"p","r","o","p","e","r","t","y">>
           /\ n.av \in { <<"o","g",":","v","i","d","e","o">>, <<"o","g",":","v","i","d","e","o",":","s","e","c","u","r","e","_","u","r","l">> }
    [] site \in {"influencersgonewild", "thotfans"} ->
         n.kind = "elem" /\ n.tag = <<"s","o","u","r","c","e">> /\ n.av = <<"v","i","d","e","o","/","m","p","4">>
    [] site = "thothub" ->
         n.kind = "text" /\ n.pre = <<"v","i","d","e","o","_","u","r","l",":"," ","'","f","u","n","c","t","i","o","n","/","0","/">>

\* the URLs the page holds in a structured location of the site
StructuredUrls(site, dom) ==
  {dom[i].v : i \in {i \in DOMAIN dom : IsStructured(site, dom[i]) /\ dom[i].v # None}}

IsAbsolute(u) == u # None /\ (startswith(u, <<"h","t","t","p",":","/","/">>) \/ startswith(u, <<"h","t","t","p","s",":","/","/">>))

\* the bare .mp4 URLs standing in the text of the page
BareMp4Urls(dom) ==
  {dom[i].v : i \in {i \in DOMAIN dom :
      /\ dom[i].kind = "text"
      /\ dom[i].pre = <<" ">>
      /\ IsAbsolute(dom[i].v)
      /\ endswith(dom[i].v, <<".","m","p","4">>)}}

(* C7: when a page holds a structured match (the site's meta tag content,  *)
(* source src or script variable) and a different bare .mp4 URL elsewhere, *)
(* extract_mp4_url returns the structured URL exactly, whichever comes     *)
(* first in the document.                                                  *)
C7_StructuredMatchWins ==
  (/\ ext_pc = "returned"
   /\ StructuredUrls(ext_site, ext_html.dom) # {}
   /\ BareMp4Urls(ext_html.dom) \ StructuredUrls(ext_site, ext_html.dom) # {})
  => ext_result \in StructuredUrls(ext_site, ext_html.dom)

\* u cut after its first ".mp4"
UpToMp4(u) == SubSeq(u, 1, Find(u, <<".","m","p","4">>, 1) + 3)

\* the absolute URLs ending in .mp4 that stand anywhere in the page source,
\* each between double quotes, single quotes or spaces
LooseMp4Urls(dom) ==
  {UpToMp4(dom[i].v) : i \in {i \in DOMAIN dom :
      IsAbsolute(dom[i].v) /\ Contains(dom[i].v, <<".","m","p","4">>)}}

NoStructuredMatch(site, dom) == \A i \in DOMAIN dom : ~IsStructured(site, dom[i])

C9_MediaUrlAbsolute == pc = "in_download" => IsAbsolute(dl_url)

(* C10: a file name a site module derives from a URL is non-empty and made *)
(* of ASCII letters, digits, '.', '_' and '-' only.                        *)
C10_DerivedNameSanitized ==
  derived_name # None =>
    /\ derived_name # <<>>
    /\ \A i \in DOMAIN derived_name : derived_name[i] \in SafeChars


(* ---------------------- claims on filename derivation ----------------- *)

(* C11: every module's filename-derivation function gives a URL with a     *)
(* query string, a trailing slash or both the name it gives the URL        *)
(* without them.                                                           *)
C11_QueryAndSlashIgnored ==
  fn_pc = "returned" => fn_result = DeriveFilename(fn_site, fn_parts.base)


(* ------------------------- claims on whole runs ----------------------- *)

(* C12: in every flow that follows an iframe, the URL fetched for the      *)
(* iframe is the iframe src resolved against the page URL the user gave,   *)
(* whichever form the src has: '/embed/x', 'embed/x' or '//host/x'.        *)
C12_IframeResolvedAgainstPage ==
  iframe_url # None =>
    iframe_url = urljoin(args.url, extract_iframe_src(site_key, html))


(* ---------------------- claims on download(), more -------------------- *)

\* the modules whose download() runs an external tool
ShellingModules == {s \in SiteModules : Tool(s) \in {"curl", "wget", "ffmpeg"}}

(* C13: a download() that shells out runs its tool once at most, and when  *)
(* the tool has exited, with zero or non-zero code, download() returns     *)
(* that code unchanged and does not raise.                                 *)
C13_ToolExitCodeReturned ==
  dl_site \in ShellingModules =>
    /\ Len(tool_exits) <= 1
    /\ (dl_pc \in {"returned", "raised"} /\ tool_exits # <<>>)
         => (dl_pc = "returned" /\ dl_rc = tool_exits[1])


\* the modules whose download() streams the body itself
StreamingModules == {s \in SiteModules : Tool(s) = "requests"}

(* C14: when a streaming download() has returned or has let an exception   *)
(* out, the output file handle is closed and the response is released,     *)
(* whichever way the streaming ended.                                      *)
C14_HandleClosedOnEveryExit ==
  (dl_site \in StreamingModules /\ dl_pc \in {"returned", "raised"})
    => (~fh_open /\ ~resp_open)

\* streaming failed after a chunk had been written to the opened file
C14_Witness ==
  /\ dl_site \in StreamingModules
  /\ dl_pc = "raised" /\ dl_exc = "StreamError"
  /\ "write" \in Range(dl_effects)
  /\ ~fh_open /\ ~resp_open


(* ------------------ claims on extract_m3u8_from_html ------------------ *)

(* C15: a value fapnut.extract_m3u8_from_html returns, when not None, is   *)
(* an absolute http:// or https:// URL and ends with ".m3u8", also when    *)
(* the playlist URL in the page carries a query string.                    *)
C15_M3u8UrlEndsWithM3u8 ==
  (ext_site = "fapnut" /\ ext_pc = "returned" /\ ext_result # None)
    => (IsAbsolute(ext_result) /\ endswith(lower(ext_result), <<".","m","3","u","8">>))


(* ---------------------- claims on whole runs, more -------------------- *)

\* the src of the page's first <source type="video/mp4">, None without one
SourceSrc(page) == SoupFind(page, <<"s","o","u","r","c","e">>, <<"t","y","p","e">>, <<"v","i","d","e","o","/","m","p","4">>).v

\* the file name the site's own derivation makes of a media URL
NameOfMedia(site, u) ==
  IF site \in {"thothub", "thotfans"} THEN filename_from_url(u)
  ELSE mp4_derive_filename_from_url(u)

(* C16: in a run of main() for a direct-mp4 site without an output path,   *)
(* on a page holding a <source type="video/mp4" src=U>, download() is given *)
(* the media URL U and writes to the file name derived from U.             *)
C16_SourceUrlAndItsName ==
  (/\ pc = "in_download"
   /\ site_key \in DirectMp4Sites
   /\ args.output = None
   /\ SourceSrc(html) # None)
    => /\ dl_url = SourceSrc(html)
       /\ dl_pc \in {"mkdir", "run", "get"} => dl_path = NameOfMedia(site_key, dl_url)


(* ------------------ claims on the streaming download() ---------------- *)

Status2xx(code) == code >= 200 /\ code < 300

\* one step of a streaming download() as the file at the output path sees it
FileStepFrame ==
  /\ dl_pc \in {"entry", "mkdir", "get", "status"} => fs_file' = fs_file
  /\ (dl_pc = "stream" /\ dl_pc' = "raised") => fs_file' = fs_file

FileStepAfter2xx == dl_pc = "open" => Status2xx(resp_status)

StreamingStep(step) == (dl_site \in StreamingModules) => step

(* C18: a streaming download() leaves the file at the output path as it    *)
(* was until raise_for_status has passed, opens it only after a 2xx        *)
(* response, and leaves what was written when streaming then fails.        *)
C18_FileOpenedOnlyAfter2xx ==
  [][StreamingStep(FileStepFrame /\ FileStepAfter2xx)]_vars


(* -------------------- claims on the exit status 0 --------------------- *)

\* download() reported success: the tool exited with 0, or the 2xx body was
\* written to its end
DownloadSucceeded ==
  /\ dl_pc = "returned"
  /\ IF Tool(dl_site) = "requests"
     THEN Status2xx(resp_status) /\ resp_left = 0 /\ "open" \in Range(dl_effects)
     ELSE tool_exits = <<0>>

(* C17: main() returns 0 only for --version, or when download() was called *)
(* with a non-empty media URL and reported success; a run that failed      *)
(* before the download never returns 0.                                    *)
C17_ZeroOnlyOnSuccess ==
  (pc = "done" /\ status = 0)
    => (args.version \/ (DownloadActed /\ Truthy(dl_url) /\ DownloadSucceeded))

=============================================================================
